---- MODULE Spec2Model ----
(***************************************************************************)
(* Record reconciliation core of components/addresses/src/address.rs:      *)
(* the Address record, AddressDelta, delta / merge / apply_delta,          *)
(* check_valid, the SyncAddressData slot setters and the lenient           *)
(* timestamp decoder.                                                      *)
(*                                                                         *)
(* Option<T> is a sequence of length 0 (None) or 1 (Some(v)).  Records are *)
(* TLA+ records whose field names are the Rust field names.                *)
(***************************************************************************)
EXTENDS Integers, Sequences, FiniteSets, TLC

VARIABLES
    pc,          \* position of the driver of the specification in use
    newer,       \* Address: `self` of Address::delta
    older,       \* Address: `older` of Address::delta, target of apply_delta
    dlt,         \* AddressDelta returned by newer.delta(older)
    applied,     \* older after apply_delta(dlt)
    d1,          \* AddressDelta: `self` of AddressDelta::merge
    d2,          \* AddressDelta: `b` of AddressDelta::merge
    b_is_newer,  \* bool argument of AddressDelta::merge
    merged,      \* AddressDelta returned by merge
    warned,      \* field names logged by log::warn! during merge, in order
    guid,        \* SyncAddressData.guid
    local,       \* SyncAddressData.local : Option<LocalAddress>
    mirror,      \* SyncAddressData.mirror : Option<MirrorAddress>
    inbound,     \* SyncAddressData.inbound : (Option<Address>, ServerTimestamp)
    outcome,     \* how the last setter call ended: "ok" or "panic"
    calls,      \* number of setter calls made so far
    call,        \* the last setter call: its name and its argument
    rec,         \* Address handed to check_valid / produced by the merge
    verdict,     \* result of check_valid
    payload,     \* raw JSON values of the three timestamp keys of a payload
    decoded      \* the three i64 timestamps decoded from payload

deltaVars == << newer, older, dlt, applied >>

mergeVars == << d1, d2, b_is_newer, merged, warned >>

ctxVars == << guid, local, mirror, inbound, outcome, calls, call >>

validVars == << rec, verdict >>

decodeVars == << payload, decoded >>

vars == << pc, deltaVars, mergeVars, ctxVars, validVars, decodeVars >>

(***************************************************************************)
(* Option<T>                                                               *)
(***************************************************************************)
None == << >>

Some(v) == << v >>

is_some(o) == o # None

is_none(o) == o = None

\* Option::unwrap_or_default for Option<String>
unwrap_or_default(o) == IF is_some(o) THEN o[1] ELSE ""

(***************************************************************************)
(* Address and AddressDelta                                                *)
(***************************************************************************)
\* the optional fields of AddressDelta, in the order merge visits them
DeltaFields ==
    << "hostname", "password", "username", "http_realm", "form_submit_url",
       "time_created", "time_last_used", "time_password_changed",
       "password_field", "username_field" >>

\* AddressDelta::default()
DefaultDelta ==
    [ hostname |-> None, password |-> None, username |-> None,
      http_realm |-> None, form_submit_url |-> None,
      time_created |-> None, time_last_used |-> None,
      time_password_changed |-> None,
      password_field |-> None, username_field |-> None,
      times_used |-> 0 ]

\* fields delta / apply_delta overwrite outright
OverwriteFields ==
    { "hostname", "username", "password", "username_field", "password_field" }

\* Option<String> fields, cleared through the Some("") sentinel
SentinelFields == { "http_realm", "form_submit_url" }

\* i64 timestamps
TimestampFields == { "time_created", "time_last_used", "time_password_changed" }

\* check_valid that tests the password before the hostname
check_valid_password_first(self) ==
    IF self.password = "" THEN "EmptyPassword"
    ELSE IF self.hostname = "" THEN "EmptyHostname"
    ELSE IF self.form_submit_url # None /\ self.http_realm # None
         THEN "BothTargets"
    ELSE IF self.form_submit_url = None /\ self.http_realm = None
         THEN "NoTarget"
    ELSE "Ok"

(***************************************************************************)
(* Address::check_valid                                                    *)
(***************************************************************************)
check_valid(self) ==
    IF self.hostname = "" THEN "EmptyHostname"
    ELSE IF self.password = "" THEN "EmptyPassword"
    ELSE IF is_some(self.form_submit_url) /\ is_some(self.http_realm)
         THEN "BothTargets"
    ELSE IF is_none(self.form_submit_url) /\ is_none(self.http_realm)
         THEN "NoTarget"
    ELSE "Ok"

(***************************************************************************)
(* merge_field! and AddressDelta::merge                                    *)
(***************************************************************************)
\* merge_field! that only handles collisions: a field set in b alone is lost
merge_field_collision_only(m, b, prefer_b, field) ==
    IF is_some(b[field]) /\ is_some(m[field]) /\ prefer_b
    THEN [m EXCEPT ![field] = b[field]]
    ELSE m

\* merge_field! that ignores prefer_b: b wins every collision
merge_field_b_always_wins(m, b, prefer_b, field) ==
    IF is_some(b[field]) THEN [m EXCEPT ![field] = b[field]] ELSE m

\* merge_field!(merged, b, prefer_b, field): the value of `m` afterwards
merge_field(m, b, prefer_b, field) ==
    IF is_some(b[field])
    THEN IF is_some(m[field])
         THEN IF prefer_b THEN [m EXCEPT ![field] = b[field]] ELSE m
         ELSE [m EXCEPT ![field] = b[field]]
    ELSE m

\* the log::warn! calls of merge_field!, one per collision, in field order
merge_warnings(self, b) ==
    SelectSeq(DeltaFields, LAMBDA f : is_some(b[f]) /\ is_some(self[f]))

RECURSIVE merge_fields(_, _, _, _)
\* the ten merge_field! lines of merge, applied from field i on
merge_fields(m, b, prefer_b, i) ==
    IF i > Len(DeltaFields) THEN m
    ELSE merge_fields(merge_field(m, b, prefer_b, DeltaFields[i]),
                      b, prefer_b, i + 1)

\* merge that treats times_used like the other fields: newest wins
merge_times_used_newest_wins(self, b, prefer_b) ==
    LET m == merge_fields(self, b, prefer_b, 1)
    IN  [m EXCEPT !.times_used = IF prefer_b THEN b.times_used ELSE m.times_used]

\* AddressDelta::merge(self, b, b_is_newer)
merge(self, b, prefer_b) ==
    LET m == merge_fields(self, b, prefer_b, 1)
    IN  [m EXCEPT !.times_used = m.times_used + b.times_used]

(***************************************************************************)
(* apply_field! and Address::apply_delta                                   *)
(***************************************************************************)
\* apply_field!(address, delta, field)
apply_field(address, delta, field) ==
    IF is_some(delta[field])
    THEN [address EXCEPT ![field] = delta[field][1]]
    ELSE address

\* the Some("") sentinel: an empty string clears the optional field
apply_sentinel(address, delta, field) ==
    IF is_some(delta[field])
    THEN [address EXCEPT
            ![field] = IF delta[field][1] = "" THEN None ELSE delta[field]]
    ELSE address

\* Address::apply_delta(&mut self, delta): the value of self afterwards
apply_delta(self, delta) ==
    LET a1 == apply_field(self, delta, "hostname")
        a2 == apply_field(a1, delta, "password")
        a3 == apply_field(a2, delta, "username")
        a4 == apply_field(a3, delta, "time_created")
        a5 == apply_field(a4, delta, "time_last_used")
        a6 == apply_field(a5, delta, "time_password_changed")
        a7 == apply_field(a6, delta, "password_field")
        a8 == apply_field(a7, delta, "username_field")
        a9 == apply_sentinel(a8, delta, "http_realm")
        a10 == apply_sentinel(a9, delta, "form_submit_url")
    IN  [a10 EXCEPT !.times_used = a10.times_used + delta.times_used]

(***************************************************************************)
(* Address::delta                                                          *)
(***************************************************************************)
\* sentinel-optional field: Some(value or "") when the two differ
delta_sentinel(d, self, other, field) ==
    IF self[field] # other[field]
    THEN [d EXCEPT ![field] = Some(unwrap_or_default(self[field]))]
    ELSE d

\* overwrite field: Some(newer value) when the two differ
delta_overwrite(d, self, other, field) ==
    IF self[field] # other[field]
    THEN [d EXCEPT ![field] = Some(self[field])]
    ELSE d

\* timestamp rule that lets a zero through (>= 0 instead of > 0)
delta_timestamp_zero_passes(d, self, other, field) ==
    IF self[field] >= 0 /\ self[field] # other[field]
    THEN [d EXCEPT ![field] = Some(self[field])]
    ELSE d

\* timestamp field: only a strictly positive newer value that differs
delta_timestamp(d, self, other, field) ==
    IF self[field] > 0 /\ self[field] # other[field]
    THEN [d EXCEPT ![field] = Some(self[field])]
    ELSE d

\* times_used: the difference newer - older, when newer is positive and differs
delta_times_used(d, self, other) ==
    IF self.times_used > 0 /\ self.times_used # other.times_used
    THEN [d EXCEPT !.times_used = self.times_used - other.times_used]
    ELSE d

\* Address::delta(&self, older)
delta(self, other) ==
    LET e1 == delta_sentinel(DefaultDelta, self, other, "form_submit_url")
        e2 == delta_sentinel(e1, self, other, "http_realm")
        e3 == delta_overwrite(e2, self, other, "hostname")
        e4 == delta_overwrite(e3, self, other, "username")
        e5 == delta_overwrite(e4, self, other, "password")
        e6 == delta_overwrite(e5, self, other, "password_field")
        e7 == delta_overwrite(e6, self, other, "username_field")
        e8 == delta_timestamp(e7, self, other, "time_created")
        e9 == delta_timestamp(e8, self, other, "time_last_used")
        e10 == delta_timestamp(e9, self, other, "time_password_changed")
    IN  delta_times_used(e10, self, other)

(***************************************************************************)
(* LocalAddress, MirrorAddress (impl_address!) and SyncAddressData         *)
(***************************************************************************)
\* From<Address> for LocalAddress
local_from(address) ==
    [ address |-> address, sync_status |-> "New", is_deleted |-> FALSE,
      local_modified |-> 0 ]

\* From<Address> for MirrorAddress
mirror_from(address) ==
    [ address |-> address, is_overridden |-> FALSE, server_modified |-> 0 ]

\* guid_str() of Address
guid_str(address) == address.guid

\* SyncAddressData::from_payload on a payload that decodes: the new context
from_payload(id, is_tombstone, record, ts) ==
    [ guid |-> id, local |-> None, mirror |-> None,
      inbound |-> << IF is_tombstone THEN None ELSE Some(record), ts >> ]

\* the first check of impl_address_setter!: the slot already holds data
setter_slot_taken(slot) == is_some(slot)

\* the second check of impl_address_setter!: the record's guid is not ours
setter_wrong_guid(self_guid, record) == self_guid # guid_str(record.address)

\* setter that forgets the guid comparison
setter_panics_slot_only(self_guid, slot, record) == setter_slot_taken(slot)

\* whether impl_address_setter! panics for this slot and record
setter_panics(self_guid, slot, record) ==
    setter_slot_taken(slot) \/ setter_wrong_guid(self_guid, record)

\* impl_address_setter!: the slot after the call ($field is left alone when
\* the setter panics, and becomes Some(record) otherwise)
setter_slot(self_guid, slot, record) ==
    IF setter_panics(self_guid, slot, record) THEN slot ELSE Some(record)

\* impl_address_setter!: how the call ends
setter_outcome(self_guid, slot, record) ==
    IF setter_panics(self_guid, slot, record) THEN "panic" ELSE "ok"

(***************************************************************************)
(* deserialize_timestamp.  A JSON integer is a sign and a magnitude of     *)
(* three base-10^9 limbs, most significant first, so that the u64 and i64  *)
(* ranges are the real ones; an i64 is [neg, mag] in the same form.        *)
(***************************************************************************)
\* i64::MAX = 9223372036854775807
I64Max == << 9, 223372036, 854775807 >>

\* 0i64, also i64::default()
I64Zero == [ neg |-> FALSE, mag |-> << 0, 0, 0 >> ]

\* a <= b on magnitudes
limbs_le(a, b) ==
    \/ a[1] < b[1]
    \/ a[1] = b[1] /\ a[2] < b[2]
    \/ a[1] = b[1] /\ a[2] = b[2] /\ a[3] <= b[3]

\* i64::deserialize on a serde_json value: a non-negative integer is visited
\* as u64 and accepted up to i64::MAX, a negative one is visited as i64, and
\* anything else (null, string, float) is an invalid type
i64_deserialize(v) ==
    IF v.kind = "posint" /\ limbs_le(v.mag, I64Max)
    THEN [ ok |-> TRUE, val |-> [ neg |-> FALSE, mag |-> v.mag ] ]
    ELSE IF v.kind = "negint"
    THEN [ ok |-> TRUE, val |-> [ neg |-> TRUE, mag |-> v.mag ] ]
    ELSE [ ok |-> FALSE, val |-> I64Zero ]

\* Result<i64, _>::unwrap_or_default
i64_unwrap_or_default(r) == IF r.ok THEN r.val ELSE I64Zero

\* i64::max(self, 0)
i64_max0(x) == IF x.neg THEN I64Zero ELSE x

\* deserialize_timestamp without the .max(0)
deserialize_timestamp_no_clamp(v) ==
    [ ok |-> TRUE, val |-> i64_unwrap_or_default(i64_deserialize(v)) ]

\* deserialize_timestamp: always Ok
deserialize_timestamp(v) ==
    [ ok |-> TRUE, val |-> i64_max0(i64_unwrap_or_default(i64_deserialize(v))) ]

\* a timestamp field of Address: #[serde(default)] when the key is missing,
\* deserialize_timestamp otherwise
timestamp_field(v) ==
    IF v.kind = "missing" THEN [ ok |-> TRUE, val |-> I64Zero ]
    ELSE deserialize_timestamp(v)

(***************************************************************************)
(* Inputs                                                                  *)
(***************************************************************************)
MaxTime == 2

MaxUsed == 3

MaxCalls == 3

Unused == "unused"

Guids == { "g1", "g2" }

Hostnames == { "", "h", "g" }

Passwords == { "", "p", "q" }

FormSubmitUrls == { None, Some(""), Some("u"), Some("v") }

HttpRealms == { None, Some(""), Some("r") }

Usernames == { "", "n", "m" }

FieldNames == { "", "f", "k" }

Timestamps == -1 .. MaxTime

TimesUsed == -1 .. MaxUsed

\* a valid form login, the record the inputs are variations of
BaseAddress ==
    [ guid |-> "g1", hostname |-> "h",
      form_submit_url |-> Some("u"), http_realm |-> None,
      username |-> "n", password |-> "p",
      username_field |-> "f", password_field |-> "k",
      time_created |-> 1, time_password_changed |-> 1, time_last_used |-> 1,
      times_used |-> 1 ]

\* base with every combination of hostname, password and the two targets
TargetVariants(base) ==
    { [base EXCEPT !.hostname = h, !.password = p,
                   !.form_submit_url = f, !.http_realm = r] :
        h \in Hostnames, p \in Passwords,
        f \in FormSubmitUrls, r \in HttpRealms }

\* base with every combination of username and the two field-name hints
TextVariants(base) ==
    { [base EXCEPT !.username = u, !.username_field = uf,
                   !.password_field = pf] :
        u \in Usernames, uf \in FieldNames, pf \in FieldNames }

\* base with every combination of the three timestamps
TimeVariants(base) ==
    { [base EXCEPT !.time_created = c, !.time_last_used = l,
                   !.time_password_changed = pw] :
        c \in Timestamps, l \in Timestamps, pw \in Timestamps }

\* base with every usage count
UsedVariants(base) == { [base EXCEPT !.times_used = n] : n \in TimesUsed }

Addresses(base) ==
    TargetVariants(base) \cup TextVariants(base) \cup TimeVariants(base)
        \cup UsedVariants(base)

IdleDelta == newer = Unused /\ older = Unused /\ dlt = Unused /\ applied = Unused

IdleMerge ==
    /\ d1 = Unused /\ d2 = Unused /\ b_is_newer = Unused
    /\ merged = Unused /\ warned = Unused

IdleCtx ==
    /\ guid = Unused /\ local = Unused /\ mirror = Unused /\ inbound = Unused
    /\ outcome = Unused /\ calls = 0 /\ call = Unused

IdleValid == rec = Unused /\ verdict = Unused

IdleDecode == payload = Unused /\ decoded = Unused

(***************************************************************************)
(* Delta round trip: newer.delta(older), then older.apply_delta(that)      *)
(***************************************************************************)
InitDelta ==
    /\ pc = "start"
    /\ newer \in Addresses(BaseAddress)
    /\ older \in Addresses(BaseAddress)
    /\ dlt = Unused /\ applied = Unused
    /\ IdleMerge /\ IdleCtx /\ IdleValid /\ IdleDecode

ComputeDelta ==
    /\ pc = "start"
    /\ dlt' = delta(newer, older)
    /\ pc' = "delta"
    /\ UNCHANGED << newer, older, applied, mergeVars, ctxVars, validVars,
                    decodeVars >>

ApplyDelta ==
    /\ pc = "delta"
    /\ applied' = apply_delta(older, dlt)
    /\ pc' = "applied"
    /\ UNCHANGED << newer, older, dlt, mergeVars, ctxVars, validVars,
                    decodeVars >>

NextDelta == ComputeDelta \/ ApplyDelta

SpecDelta == InitDelta /\ [][NextDelta]_vars

(***************************************************************************)
(* Merging two deltas: d1.merge(d2, b_is_newer)                            *)
(***************************************************************************)
OptTexts == { None, Some("a"), Some("b") }

OptTargets == { None, Some(""), Some("a"), Some("b") }

OptTimes == { None } \cup { Some(t) : t \in 1 .. MaxTime }

DeltaUsed == { -1, 0, 1 }

\* deltas that set any of hostname, password, username
CredentialDeltas ==
    { [DefaultDelta EXCEPT !.hostname = h, !.password = p, !.username = u,
                           !.times_used = n] :
        h \in OptTexts, p \in OptTexts, u \in OptTexts, n \in DeltaUsed }

\* deltas that set any of the two targets
TargetDeltas ==
    { [DefaultDelta EXCEPT !.http_realm = r, !.form_submit_url = f,
                           !.times_used = n] :
        r \in OptTargets, f \in OptTargets, n \in DeltaUsed }

\* deltas that set any of the two field-name hints
FieldNameDeltas ==
    { [DefaultDelta EXCEPT !.password_field = pf, !.username_field = uf,
                           !.times_used = n] :
        pf \in OptTexts, uf \in OptTexts, n \in DeltaUsed }

\* deltas that set any of the three timestamps
TimeDeltas ==
    { [DefaultDelta EXCEPT !.time_created = c, !.time_last_used = l,
                           !.time_password_changed = pw, !.times_used = n] :
        c \in OptTimes, l \in OptTimes, pw \in OptTimes, n \in DeltaUsed }

Deltas == CredentialDeltas \cup TargetDeltas \cup FieldNameDeltas \cup TimeDeltas

InitMerge ==
    /\ pc = "deltas"
    /\ d1 \in Deltas
    /\ d2 \in Deltas
    /\ b_is_newer \in BOOLEAN
    /\ merged = Unused /\ warned = Unused
    /\ IdleDelta /\ IdleCtx /\ IdleValid /\ IdleDecode

\* let merged = d1.merge(d2, b_is_newer), with the warnings it logs
Merge ==
    /\ pc = "deltas"
    /\ merged' = merge(d1, d2, b_is_newer)
    /\ warned' = merge_warnings(d1, d2)
    /\ pc' = "merged"
    /\ UNCHANGED << d1, d2, b_is_newer, deltaVars, ctxVars, validVars,
                    decodeVars >>

NextMerge == Merge

SpecMerge == InitMerge /\ [][NextMerge]_vars

(***************************************************************************)
(* Validation of one record                                                *)
(***************************************************************************)
InitValid ==
    /\ pc = "record"
    /\ rec \in Addresses(BaseAddress)
    /\ verdict = Unused
    /\ IdleDelta /\ IdleMerge /\ IdleCtx /\ IdleDecode

\* rec.check_valid(): takes &self, so rec stays as it is
CheckValid ==
    /\ pc = "record"
    /\ verdict' = check_valid(rec)
    /\ pc' = "checked"
    /\ UNCHANGED << rec, deltaVars, mergeVars, ctxVars, decodeVars >>

NextValid == CheckValid

SpecValid == InitValid /\ [][NextValid]_vars

(***************************************************************************)
(* Three-way merge of a populated context: both deltas against the mirror, *)
(* merged, applied to the mirror record, then validated                    *)
(***************************************************************************)
\* the http-auth counterpart of BaseAddress
RealmAddress ==
    [BaseAddress EXCEPT !.form_submit_url = None, !.http_realm = Some("r")]

Mirrors == { BaseAddress, RealmAddress }

InitThreeWay ==
    /\ pc = "loaded"
    /\ guid = BaseAddress.guid
    /\ \E m \in Mirrors :
         /\ mirror = Some(mirror_from(m))
         /\ \E l \in Addresses(m) : local = Some(local_from(l))
         /\ \E i \in Addresses(m) : inbound = << Some(i), 0 >>
    /\ b_is_newer \in BOOLEAN
    /\ outcome = Unused /\ calls = 0 /\ call = Unused
    /\ d1 = Unused /\ d2 = Unused /\ merged = Unused /\ warned = Unused
    /\ IdleDelta /\ IdleValid /\ IdleDecode

\* d1 = local.delta(mirror), d2 = inbound.delta(mirror)
ThreeWayDeltas ==
    /\ pc = "loaded"
    /\ d1' = delta(local[1].address, mirror[1].address)
    /\ d2' = delta(inbound[1][1], mirror[1].address)
    /\ pc' = "deltas"
    /\ UNCHANGED << b_is_newer, merged, warned, deltaVars, ctxVars, validVars,
                    decodeVars >>

\* rec = mirror with the merged delta applied
ThreeWayApply ==
    /\ pc = "merged"
    /\ rec' = apply_delta(mirror[1].address, merged)
    /\ pc' = "record"
    /\ UNCHANGED << verdict, deltaVars, mergeVars, ctxVars, decodeVars >>

NextThreeWay == ThreeWayDeltas \/ Merge \/ ThreeWayApply \/ CheckValid

SpecThreeWay == InitThreeWay /\ [][NextThreeWay]_vars

(***************************************************************************)
(* A context built by from_payload, then any set_local / set_mirror calls  *)
(***************************************************************************)
\* records of either guid, told apart by their hostname
CtxAddresses ==
    { [BaseAddress EXCEPT !.guid = g, !.hostname = h] :
        g \in Guids, h \in { "h", "g" } }

InitCtx ==
    /\ pc = "ctx"
    /\ \E record \in CtxAddresses, is_tombstone \in BOOLEAN, ts \in 0 .. 1 :
         LET ctx == from_payload(record.guid, is_tombstone, record, ts)
         IN  /\ guid = ctx.guid
             /\ local = ctx.local
             /\ mirror = ctx.mirror
             /\ inbound = ctx.inbound
    /\ outcome = "none" /\ calls = 0 /\ call = << "none" >>
    /\ IdleDelta /\ IdleMerge /\ IdleValid /\ IdleDecode

\* self.set_local(record)
SetLocal ==
    /\ pc = "ctx"
    /\ calls < MaxCalls
    /\ \E a \in CtxAddresses :
         LET record == local_from(a)
         IN  /\ local' = setter_slot(guid, local, record)
             /\ outcome' = setter_outcome(guid, local, record)
             /\ call' = << "set_local", record >>
    /\ calls' = calls + 1
    /\ UNCHANGED << pc, guid, mirror, inbound, deltaVars, mergeVars, validVars,
                    decodeVars >>

\* self.set_mirror(record)
SetMirror ==
    /\ pc = "ctx"
    /\ calls < MaxCalls
    /\ \E a \in CtxAddresses :
         LET record == mirror_from(a)
         IN  /\ mirror' = setter_slot(guid, mirror, record)
             /\ outcome' = setter_outcome(guid, mirror, record)
             /\ call' = << "set_mirror", record >>
    /\ calls' = calls + 1
    /\ UNCHANGED << pc, guid, local, inbound, deltaVars, mergeVars, validVars,
                    decodeVars >>

NextCtx == SetLocal \/ SetMirror

SpecCtx == InitCtx /\ [][NextCtx]_vars

(***************************************************************************)
(* Decoding the three timestamp keys of a payload                          *)
(***************************************************************************)
NoLimbs == << 0, 0, 0 >>

JsonMissing == [ kind |-> "missing", text |-> "", mag |-> NoLimbs ]

JsonNull == [ kind |-> "null", text |-> "", mag |-> NoLimbs ]

JsonString(t) == [ kind |-> "string", text |-> t, mag |-> NoLimbs ]

JsonFloat(t) == [ kind |-> "float", text |-> t, mag |-> NoLimbs ]

JsonPosInt(m) == [ kind |-> "posint", text |-> "", mag |-> m ]

JsonNegInt(m) == [ kind |-> "negint", text |-> "", mag |-> m ]

JsonValues ==
    { JsonMissing, JsonNull,
      JsonString("some other garbage"), JsonString("12"),
      JsonFloat("1.5"),
      JsonPosInt(<< 0, 0, 0 >>), JsonPosInt(<< 0, 0, 1 >>),
      JsonPosInt(<< 0, 1572, 566400000 >>),
      JsonPosInt(<< 9, 223372036, 854775807 >>),
      JsonPosInt(<< 9, 223372036, 854775808 >>),
      JsonPosInt(<< 18, 446732429, 235952000 >>),
      JsonPosInt(<< 18, 446744073, 709551615 >>),
      JsonNegInt(<< 0, 0, 1 >>), JsonNegInt(<< 0, 0, 30 >>),
      JsonNegInt(<< 9, 223372036, 854775808 >>) }

InitDecode ==
    /\ pc = "payload"
    /\ payload \in [ timeCreated : JsonValues, timeLastUsed : JsonValues,
                     timePasswordChanged : JsonValues ]
    /\ decoded = Unused
    /\ IdleDelta /\ IdleMerge /\ IdleCtx /\ IdleValid

\* the timestamp fields of payload.into_record()
DecodeTimestamps ==
    /\ pc = "payload"
    /\ decoded' = [ time_created |-> timestamp_field(payload.timeCreated),
                    time_last_used |-> timestamp_field(payload.timeLastUsed),
                    time_password_changed |->
                        timestamp_field(payload.timePasswordChanged) ]
    /\ pc' = "decoded"
    /\ UNCHANGED << payload, deltaVars, mergeVars, ctxVars, validVars >>

NextDecode == DecodeTimestamps

SpecDecode == InitDecode /\ [][NextDecode]_vars

(***************************************************************************)
(* Properties                                                              *)
(***************************************************************************)
\* the three records of a populated context
LocalRecord == local[1].address

MirrorRecord == mirror[1].address

InboundRecord == inbound[1][1]

\* C1: for records a (newer) and b (older) of one guid, apply_delta(b,
\* delta(a, b)) equals a in every overwrite field, in every sentinel-optional
\* field (None, Some("") and Some(non-empty) alike) and in every timestamp
\* field whose value in a is positive.
C1_RoundTrip ==
    pc = "applied" =>
        /\ \A f \in OverwriteFields : applied[f] = newer[f]
        /\ \A f \in SentinelFields : applied[f] = newer[f]
        /\ \A f \in TimestampFields : newer[f] > 0 => applied[f] = newer[f]

\* C2: when local, mirror and inbound all pass check_valid, the mirror record
\* with merge(delta(local, mirror), delta(inbound, mirror), b_is_newer)
\* applied passes check_valid too, for either b_is_newer.
C2_MergeKeepsValid ==
    ( /\ pc = "checked"
      /\ check_valid(LocalRecord) = "Ok"
      /\ check_valid(MirrorRecord) = "Ok"
      /\ check_valid(InboundRecord) = "Ok" )
    => verdict = "Ok"

\* C3: an overwrite field that exactly one of local and inbound changed
\* against mirror has the changed side's value after the three-way merge is
\* applied to mirror, for either b_is_newer; a field neither side changed
\* keeps mirror's value.
C3_IndependentEdits ==
    pc \in { "record", "checked" } =>
        \A f \in OverwriteFields :
            LET l == LocalRecord[f]
                m == MirrorRecord[f]
                i == InboundRecord[f]
            IN  /\ (l # m /\ i = m) => rec[f] = l
                /\ (l = m /\ i # m) => rec[f] = i
                /\ (l = m /\ i = m) => rec[f] = m

\* C3 witness: local alone changed the hostname, inbound alone changed the
\* password, and the merged record carries both edits
C3_Witness ==
    /\ pc = "record"
    /\ LocalRecord.hostname # MirrorRecord.hostname
    /\ InboundRecord.hostname = MirrorRecord.hostname
    /\ InboundRecord.password # MirrorRecord.password
    /\ LocalRecord.password = MirrorRecord.password
    /\ rec.hostname = LocalRecord.hostname
    /\ rec.password = InboundRecord.password
    /\ rec.username = MirrorRecord.username

\* the set of DeltaFields
DeltaFieldSet == { DeltaFields[i] : i \in 1 .. Len(DeltaFields) }

\* C4: for every optional field set in both d1 and d2, merge(d1, d2, true)
\* carries d2's value and merge(d1, d2, false) carries d1's; and the merged
\* value of a field is a function of that field of d1 and d2 and of
\* b_is_newer alone, whatever the other fields hold.
C4_TieBreak ==
    pc = "merged" =>
        \A f \in DeltaFieldSet :
            /\ (is_some(d1[f]) /\ is_some(d2[f])) =>
                   merged[f] = IF b_is_newer THEN d2[f] ELSE d1[f]
            /\ merged[f] =
                   IF is_some(d2[f]) /\ (is_none(d1[f]) \/ b_is_newer)
                   THEN d2[f] ELSE d1[f]

\* C4 witness: username_field collides with two different values while
\* password_field is set on one side only, and b, being newer, wins
C4_Witness ==
    /\ pc = "merged"
    /\ b_is_newer = TRUE
    /\ d1.username_field = Some("a")
    /\ d2.username_field = Some("b")
    /\ is_some(d1.password_field)
    /\ is_none(d2.password_field)
    /\ merged.username_field = Some("b")
    /\ merged.password_field = d1.password_field
    /\ warned = << "username_field" >>

\* C5: delta(newer, older).times_used is newer.times_used - older.times_used
\* when that difference is positive and 0 otherwise, so it is never negative
\* and applying it never lowers older.times_used.
C5_IncrementOnly ==
    /\ pc \in { "delta", "applied" } =>
           /\ dlt.times_used =
                  IF newer.times_used - older.times_used > 0
                  THEN newer.times_used - older.times_used ELSE 0
           /\ dlt.times_used >= 0
    /\ pc = "applied" => applied.times_used >= older.times_used

\* C6: delta(a, b) holds a timestamp field exactly when a's value is
\* strictly positive and differs from b's, and then holds a's value; when
\* a's value is <= 0 the field is left out and apply_delta keeps b's value.
C6_Timestamps ==
    pc \in { "delta", "applied" } =>
        \A f \in TimestampFields :
            /\ is_some(dlt[f]) <=> (newer[f] > 0 /\ newer[f] # older[f])
            /\ is_some(dlt[f]) => dlt[f] = Some(newer[f])
            /\ newer[f] <= 0 => is_none(dlt[f])
            /\ (pc = "applied" /\ newer[f] <= 0) => applied[f] = older[f]

\* C6 witness: a zero time_created next to a positive older one is left out
\* and the older value survives, while a positive, different time_last_used
\* is carried over
C6_Witness ==
    /\ pc = "applied"
    /\ newer.time_created = 0
    /\ older.time_created > 0
    /\ is_none(dlt.time_created)
    /\ applied.time_created = older.time_created
    /\ newer.time_last_used > 0
    /\ newer.time_last_used # older.time_last_used
    /\ applied.time_last_used = newer.time_last_used

\* C7: merge(d1, d2, b_is_newer).times_used is d1.times_used + d2.times_used
\* whatever b_is_newer is and whichever other fields collide, and so is the
\* same with d1 and d2 swapped.
C7_TimesUsedAdditive ==
    pc = "merged" =>
        /\ merged.times_used = d1.times_used + d2.times_used
        /\ merge(d2, d1, b_is_newer).times_used = merged.times_used

\* C7 witness: two different non-zero increments are summed while another
\* field collides and b is newer
C7_Witness ==
    /\ pc = "merged"
    /\ b_is_newer = TRUE
    /\ d1.times_used = 1
    /\ d2.times_used = -1
    /\ warned # << >>
    /\ merged.times_used = 0

\* each verdict of check_valid is returned exactly when its condition holds
\* and every earlier check passed
C8_Verdict ==
    pc = "checked" =>
        LET both == is_some(rec.form_submit_url) /\ is_some(rec.http_realm)
            neither == is_none(rec.form_submit_url) /\ is_none(rec.http_realm)
        IN  /\ verdict = "EmptyHostname" <=> rec.hostname = ""
            /\ verdict = "EmptyPassword" <=>
                   (rec.hostname # "" /\ rec.password = "")
            /\ verdict = "BothTargets" <=>
                   (rec.hostname # "" /\ rec.password # "" /\ both)
            /\ verdict = "NoTarget" <=>
                   (rec.hostname # "" /\ rec.password # "" /\ neither)
            /\ verdict = "Ok" <=>
                   (rec.hostname # "" /\ rec.password # "" /\ ~both /\ ~neither)

\* C8: check_valid reports the first violated invariant in the order
\* EmptyHostname, EmptyPassword, BothTargets, NoTarget, reports Ok exactly
\* when hostname and password are non-empty and exactly one target is set,
\* and leaves the record as it was.
C8_CheckValid == []C8_Verdict /\ [][rec' = rec]_vars

\* C8 witness: a record that breaks three invariants at once is reported
\* for the first of them
C8_Witness ==
    /\ pc = "checked"
    /\ rec.hostname = ""
    /\ rec.password = ""
    /\ is_some(rec.form_submit_url)
    /\ is_some(rec.http_realm)
    /\ verdict = "EmptyHostname"

\* a populated slot holds a record of the context's guid
C9_SlotGuids ==
    pc = "ctx" =>
        /\ is_some(local) => guid_str(local[1].address) = guid
        /\ is_some(mirror) => guid_str(mirror[1].address) = guid

\* what one setter call does to the context
C9_Call ==
    calls' = calls + 1 =>
        LET record == call'[2]
            target == IF call'[1] = "set_local" THEN local ELSE mirror
            rejected == is_some(target) \/ record.address.guid # guid
        IN  IF rejected
            THEN /\ outcome' = "panic"
                 /\ UNCHANGED << guid, local, mirror, inbound >>
            ELSE /\ outcome' = "ok"
                 /\ UNCHANGED << guid, inbound >>
                 /\ IF call'[1] = "set_local"
                    THEN local' = Some(record) /\ mirror' = mirror
                    ELSE mirror' = Some(record) /\ local' = local

\* a slot, once populated, keeps its record
C9_SlotKept ==
    /\ is_some(local) => local' = local
    /\ is_some(mirror) => mirror' = mirror

\* C9: after any sequence of set_local / set_mirror calls on a context built
\* by from_payload, a populated slot holds a record of the context's guid,
\* namely that of the first accepted call for the slot; a call on a populated
\* slot or with a record of another guid panics and leaves guid, local,
\* mirror and inbound as they were.
C9_Setters == []C9_SlotGuids /\ [][C9_Call /\ C9_SlotKept]_vars

\* C9 witness: local was set by an accepted call, and the last of MaxCalls
\* calls, a set_mirror with a record of another guid, panicked and left
\* mirror empty
C9_Witness ==
    /\ pc = "ctx"
    /\ calls = MaxCalls
    /\ is_some(local)
    /\ is_none(mirror)
    /\ outcome = "panic"
    /\ call[1] = "set_mirror"
    /\ call[2].address.guid # guid

\* the raw value a decoded field came from
RawOf(f) ==
    CASE f = "time_created" -> payload.timeCreated
      [] f = "time_last_used" -> payload.timeLastUsed
      [] f = "time_password_changed" -> payload.timePasswordChanged

\* C10: decoding a timestamp key never fails and never gives a negative
\* value: an integer in [0, 2^63 - 1] decodes to itself, and a value that is
\* missing, not an integer, above 2^63 - 1 or negative decodes to 0.
C10_Sanitized ==
    pc = "decoded" =>
        \A f \in TimestampFields :
            LET raw == RawOf(f)
                in_range == raw.kind = "posint" /\ limbs_le(raw.mag, I64Max)
            IN  /\ decoded[f].ok
                /\ ~decoded[f].val.neg
                /\ decoded[f].val.mag = IF in_range THEN raw.mag ELSE NoLimbs

\* C10 witness: the payload of test_invalid_payload_timestamp, decoded to
\* three zeros
C10_Witness ==
    /\ pc = "decoded"
    /\ payload.timeCreated = JsonPosInt(<< 18, 446732429, 235952000 >>)
    /\ payload.timeLastUsed = JsonString("some other garbage")
    /\ payload.timePasswordChanged = JsonNegInt(<< 0, 0, 30 >>)
    /\ decoded.time_created.val = I64Zero
    /\ decoded.time_last_used.val = I64Zero
    /\ decoded.time_password_changed.val = I64Zero

====
